---- MODULE Spec2Model ----
(***************************************************************************)
(* The x/halving module of gxrchaind: the per-block BeginBlocker, the      *)
(* halving-cycle keeper and the bank / staking state it reads and writes.  *)
(*                                                                         *)
(* Units.  Block times are whole days since the Unix epoch (a block time   *)
(* t in the model is the instant 00:00:00 UTC of day t), so the code's     *)
(* durations 30*24h, 730*24h and 5*365*24h are 30, 730 and 1825.  Amounts  *)
(* are whole GXR (1 GXR = 10^8 ugen), so MinimumSupplyThreshold is 1000.   *)
(***************************************************************************)
EXTENDS Integers, Sequences, FiniteSets, TLC

VARIABLES
    now,          \* ctx.BlockTime() of the last block, in Unix days
    found,        \* whether CurrentHalvingKey is present in the store
    info,         \* the stored types.HalvingInfo
    supply,       \* bankKeeper.GetSupply(MainDenom)
    moduleBal,    \* balance of the halving module account
    valBal,       \* balance of every validator's account
    feeBal,       \* balance of the fee collector account
    uptime,       \* the stored types.ValidatorUptime of every validator
    records,      \* the stored types.DistributionRecord values, by timestamp
    params,       \* the types.Params held by the parameter store
    bonded,       \* the validators the staking keeper reports as bonded
    ev,           \* what the last step did (history, read by the properties)
    attempt,      \* burns and payments since the last committed distribution
    idle,         \* per validator: ticks of this window that saw it not bonded
    budget,       \* how many faults / external steps have been used
    bot,          \* the off-chain Rebalancer and its clock, in hours
    botEv         \* what the last step of the bot did (history)

vars == <<now, found, info, supply, moduleBal, valBal, feeBal, uptime, records,
          params, bonded, ev, attempt, idle, budget, bot, botEv>>

----------------------------------------------------------------------------
(* Program constants *)

MinimumSupplyThreshold == 1000
HalvingCycleDuration == 1825
DistributionPeriod == 730
ValidatorInactiveThreshold == 10
MonthDuration == 30
DEXDistributionPeriod == 730
MonthlyDistributionTrigger == 30
TotalMonths == 24

(* The rebalancer: prices in cents, times in hours *)
RebalanceInterval == 1
PriceThreshold == 500
MonitorOnlyDuration == 24
EmergencyStopThreshold == 500

(* Bounds of the model *)

GenesisDay == 19723            \* 2024-01-01, the genesis block time
Horizon == 3700                \* block times stay within GenesisDay + Horizon
MaxFaults == 1                 \* ledger calls made to fail in one behaviour
MaxLedgerOps == 1              \* supply changes made by other modules
LedgerDelta == 20              \* size of a supply change by another module
YearStep == 365                \* a long gap between two blocks
MaxCycle == 3                  \* cycle numbers the liveness property ranges over
AdvanceSlack == 20             \* days left after the end of a cycle that is to be followed
MaxStakingOps == 2             \* changes of the bonded set in one behaviour
UptimeHorizon == 1860          \* daily blocks stay within GenesisDay + UptimeHorizon
BotHorizon == 26               \* hours the rebalancer is run for

Vals == {"v1", "v2"}
ValOrder == <<"v1", "v2">>     \* GetBondedValidatorsByPower order

InitialSupplies == {85000000, 1010}
InitialBonded == {Vals, {}}

(* The fault "the operator address of v does not parse" *)
BadAddress == [v \in Vals |-> IF v = "v1" THEN "badAddress1" ELSE "badAddress2"]

Faults ==
    {"none", "burn", "mint", "noFeeCollector", "sendDelegators"}
        \cup Vals \cup {BadAddress[v] : v \in Vals}

(* genState.DistributionRecords of the genesis files imported: none, or   *)
(* one record of a distribution made before the genesis block             *)
GenesisRecordLists ==
    {<<>>,
     <<[Timestamp |-> GenesisDay - 31, Amount |-> 7, Cycle |-> 1, Month |-> 1]>>}

----------------------------------------------------------------------------
(* time.Time.Day() of a UTC instant given in Unix days (proleptic Gregorian) *)

DayOfMonth(d) ==
    LET z   == d + 719468
        era == z \div 146097
        doe == z - era * 146097
        yoe == (doe - (doe \div 1460) + (doe \div 36524) - (doe \div 146096)) \div 365
        doy == doe - (365 * yoe + (yoe \div 4) - (yoe \div 100))
        mp  == (5 * doy + 2) \div 153
    IN  doy - ((153 * mp + 2) \div 5) + 1

(* The next block time on the 1st or the 15th of a month *)
NextAnchor(d) ==
    CHOOSE t \in (d + 1)..(d + 31) :
        /\ DayOfMonth(t) \in {1, 15}
        /\ \A u \in (d + 1)..(t - 1) : DayOfMonth(u) \notin {1, 15}

----------------------------------------------------------------------------
(* Stored values *)

ZeroInfo ==
    [CurrentCycle |-> 0, CycleStartTime |-> 0, TotalSupply |-> 0,
     HalvingFund |-> 0, DistributionActive |-> FALSE, DistributionStart |-> 0,
     DistributedAmount |-> 0, PauseStart |-> 0, LastMonthlyDistrib |-> 0]

(* types.DefaultParams, the shares in percent *)
DefaultParams ==
    [HalvingCycleDuration |-> 1825, ValidatorShare |-> 70,
     DelegatorShare |-> 20, DexShare |-> 10]

NoUptime == [found |-> FALSE, CurrentMonth |-> 0, InactiveDays |-> 0, LastCheck |-> 0]

(* The state the keeper works on, as one value *)
Store ==
    [found |-> found, info |-> info, supply |-> supply, moduleBal |-> moduleBal,
     valBal |-> valBal, feeBal |-> feeBal, uptime |-> uptime,
     records |-> records]

(* SetDistributionRecord: the store key is the record's timestamp *)
SetDistributionRecord(recs, record) ==
    {r \in recs : r.Timestamp # record.Timestamp} \cup {record}

(* The loop of InitGenesis over genState.DistributionRecords *)
RECURSIVE InitGenesisRecords(_, _)
InitGenesisRecords(list, recs) ==
    IF list = <<>> THEN recs
    ELSE InitGenesisRecords(Tail(list), SetDistributionRecord(recs, Head(list)))

(* GetAllDistributionRecords: the prefix iterator returns the records in *)
(* the order of their big-endian timestamp keys                          *)
RECURSIVE GetAllDistributionRecords(_)
GetAllDistributionRecords(recs) ==
    IF recs = {} THEN <<>>
    ELSE LET first == CHOOSE r \in recs :
                          \A q \in recs : r.Timestamp <= q.Timestamp
         IN  <<first>> \o GetAllDistributionRecords(recs \ {first})

(* ExportGenesis: the default genesis state, with the stored parameters, *)
(* the stored HalvingInfo if there is one, and all distribution records; *)
(* the validator uptime records are not exported                         *)
ExportGenesis(st, p) ==
    [Params              |-> p,
     HalvingInfo         |-> IF st.found THEN st.info ELSE ZeroInfo,
     DistributionRecords |-> GetAllDistributionRecords(st.records),
     ValidatorUptimes    |-> <<>>]

(* InitGenesis on an empty store: SetParams, SetHalvingInfo and one      *)
(* SetDistributionRecord per record, whatever the genesis state holds    *)
InitGenesis(genState) ==
    [params  |-> genState.Params,
     found   |-> TRUE,
     info    |-> genState.HalvingInfo,
     records |-> InitGenesisRecords(genState.DistributionRecords, {}),
     uptime  |-> [v \in Vals |-> NoUptime]]

Ctx(t, f) == [now |-> t, fault |-> f, bonded |-> bonded]

----------------------------------------------------------------------------
(* The bank keeper, as the module calls it.  A call fails when the fault   *)
(* injected into this block names it, or when the module account cannot   *)
(* cover the amount.                                                       *)

BurnCoins(st, ctx, amt) ==
    IF ctx.fault # "burn" /\ st.moduleBal >= amt
    THEN [ok |-> TRUE,
          st |-> [st EXCEPT !.moduleBal = @ - amt, !.supply = @ - amt]]
    ELSE [ok |-> FALSE, st |-> st]

MintCoins(st, ctx, amt) ==
    IF ctx.fault # "mint"
    THEN [ok |-> TRUE,
          st |-> [st EXCEPT !.moduleBal = @ + amt, !.supply = @ + amt]]
    ELSE [ok |-> FALSE, st |-> st]

SendToValidator(st, ctx, v, amt) ==
    IF ctx.fault # v /\ st.moduleBal >= amt
    THEN [ok |-> TRUE,
          st |-> [st EXCEPT !.moduleBal = @ - amt, !.valBal[v] = @ + amt]]
    ELSE [ok |-> FALSE, st |-> st]

SendToFeeCollector(st, ctx, amt) ==
    IF ctx.fault # "sendDelegators" /\ st.moduleBal >= amt
    THEN [ok |-> TRUE,
          st |-> [st EXCEPT !.moduleBal = @ - amt, !.feeBal = @ + amt]]
    ELSE [ok |-> FALSE, st |-> st]

(* The product rounded up instead of truncated *)
MulTruncate_RoundsUp(amount, pct) == (amount * pct + 99) \div 100

(* sdk.Dec: amount.ToDec().Mul(pct/100).TruncateInt() *)
MulTruncate(amount, pct) == (amount * pct) \div 100

----------------------------------------------------------------------------
(* keeper.go *)

GetCurrentTotalSupply(st) == st.supply

(* advanceToNextCycle that leaves the cycle number as it was *)
advanceToNextCycle_KeepsCycle(st, ctx) ==
    [st EXCEPT !.info =
        [CurrentCycle       |-> st.info.CurrentCycle,
         CycleStartTime     |-> ctx.now,
         TotalSupply        |-> GetCurrentTotalSupply(st),
         HalvingFund        |-> MulTruncate(GetCurrentTotalSupply(st), 15),
         DistributionActive |-> TRUE,
         DistributionStart  |-> ctx.now,
         DistributedAmount  |-> 0,
         PauseStart         |-> 0,
         LastMonthlyDistrib |-> 0]]

(* advanceToNextCycle that leaves the pause start as it was *)
advanceToNextCycle_KeepsPauseStart(st, ctx) ==
    [st EXCEPT !.info =
        [CurrentCycle       |-> st.info.CurrentCycle + 1,
         CycleStartTime     |-> ctx.now,
         TotalSupply        |-> GetCurrentTotalSupply(st),
         HalvingFund        |-> MulTruncate(GetCurrentTotalSupply(st), 15),
         DistributionActive |-> TRUE,
         DistributionStart  |-> ctx.now,
         DistributedAmount  |-> 0,
         PauseStart         |-> st.info.PauseStart,
         LastMonthlyDistrib |-> 0]]

advanceToNextCycle(st, ctx) ==
    LET currentSupply == GetCurrentTotalSupply(st)
        halvingAmount == MulTruncate(currentSupply, 15)
        newInfo == [CurrentCycle       |-> st.info.CurrentCycle + 1,
                    CycleStartTime     |-> ctx.now,
                    TotalSupply        |-> currentSupply,
                    HalvingFund        |-> halvingAmount,
                    DistributionActive |-> TRUE,
                    DistributionStart  |-> ctx.now,
                    DistributedAmount  |-> 0,
                    PauseStart         |-> 0,
                    LastMonthlyDistrib |-> 0]
    IN  [st EXCEPT !.info = newInfo]

FirstCycleInfo(st, ctx) ==
    [CurrentCycle       |-> 1,
     CycleStartTime     |-> ctx.now,
     TotalSupply        |-> GetCurrentTotalSupply(st),
     HalvingFund        |-> 0,
     DistributionActive |-> FALSE,
     DistributionStart  |-> 0,
     DistributedAmount  |-> 0,
     PauseStart         |-> 0,
     LastMonthlyDistrib |-> 0]

(* CheckAndAdvanceHalvingCycle that starts no cycle after the second *)
CheckAndAdvanceHalvingCycle_TwoCyclesOnly(st, ctx) ==
    IF ~st.found
    THEN [st EXCEPT !.found = TRUE, !.info = FirstCycleInfo(st, ctx)]
    ELSE IF GetCurrentTotalSupply(st) < MinimumSupplyThreshold
    THEN st
    ELSE IF /\ ctx.now - st.info.CycleStartTime >= HalvingCycleDuration
            /\ st.info.CurrentCycle < 2
    THEN advanceToNextCycle(st, ctx)
    ELSE st

(* CheckAndAdvanceHalvingCycle without the supply threshold *)
CheckAndAdvanceHalvingCycle_NoThreshold(st, ctx) ==
    IF ~st.found
    THEN [st EXCEPT !.found = TRUE, !.info = FirstCycleInfo(st, ctx)]
    ELSE IF ctx.now - st.info.CycleStartTime >= HalvingCycleDuration
    THEN advanceToNextCycle(st, ctx)
    ELSE st

CheckAndAdvanceHalvingCycle(st, ctx) ==
    IF ~st.found
    THEN [st EXCEPT !.found = TRUE, !.info = FirstCycleInfo(st, ctx)]
    ELSE IF GetCurrentTotalSupply(st) < MinimumSupplyThreshold
    THEN st
    ELSE IF ctx.now - st.info.CycleStartTime >= HalvingCycleDuration
    THEN advanceToNextCycle(st, ctx)
    ELSE st

(* CheckAndUpdateDistributionStatus that ends the distribution after three *)
(* years instead of two                                                    *)
CheckAndUpdateDistributionStatus_ThreeYears(st, ctx) ==
    IF ~st.found
    THEN st
    ELSE IF /\ st.info.DistributionActive
            /\ ctx.now - st.info.DistributionStart >= DistributionPeriod + 365
    THEN [st EXCEPT !.info.DistributionActive = FALSE,
                    !.info.PauseStart = ctx.now]
    ELSE st

(* CheckAndUpdateDistributionStatus that never ends the distribution *)
CheckAndUpdateDistributionStatus_NeverPauses(st, ctx) == st

CheckAndUpdateDistributionStatus(st, ctx) ==
    IF ~st.found
    THEN st
    ELSE IF /\ st.info.DistributionActive
            /\ ctx.now - st.info.DistributionStart >= DistributionPeriod
    THEN [st EXCEPT !.info.DistributionActive = FALSE,
                    !.info.PauseStart = ctx.now]
    ELSE st

(* ShouldDistribute without the 30-day check *)
ShouldDistribute_NoInterval(st, ctx) ==
    st.found /\ st.info.DistributionActive

ShouldDistribute(st, ctx) ==
    IF ~st.found \/ ~st.info.DistributionActive
    THEN FALSE
    ELSE IF st.info.LastMonthlyDistrib = 0
    THEN TRUE
    ELSE ctx.now - st.info.LastMonthlyDistrib >= MonthlyDistributionTrigger

calculateMonthlyDistribution(i) ==
    LET monthlyAmount == i.HalvingFund \div TotalMonths
    IN  IF monthlyAmount > i.HalvingFund THEN i.HalvingFund ELSE monthlyAmount

getCurrentMonth(ctx) == ctx.now \div MonthDuration

(* isValidatorActive with the threshold one day higher *)
isValidatorActive_OneMoreDay(up, v, ctx) ==
    LET u == up[v]
        fresh == [found |-> TRUE, CurrentMonth |-> getCurrentMonth(ctx),
                  InactiveDays |-> 0, LastCheck |-> ctx.now]
    IN  IF ~u.found \/ u.CurrentMonth # getCurrentMonth(ctx)
        THEN [up |-> [up EXCEPT ![v] = fresh], active |-> TRUE]
        ELSE [up |-> up, active |-> u.InactiveDays <= ValidatorInactiveThreshold + 1]

(* Returns the uptime records as written and whether v counts as active *)
isValidatorActive(up, v, ctx) ==
    LET u == up[v]
        currentMonth == getCurrentMonth(ctx)
        fresh == [found |-> TRUE, CurrentMonth |-> currentMonth,
                  InactiveDays |-> 0, LastCheck |-> ctx.now]
    IN  IF ~u.found
        THEN [up |-> [up EXCEPT ![v] = fresh], active |-> TRUE]
        ELSE IF u.CurrentMonth # currentMonth
        THEN [up |-> [up EXCEPT ![v] = fresh], active |-> TRUE]
        ELSE LET u2 == IF v \notin ctx.bonded /\ ctx.now - u.LastCheck >= 1
                       THEN [u EXCEPT !.InactiveDays = @ + 1, !.LastCheck = ctx.now]
                       ELSE u
             IN  [up |-> [up EXCEPT ![v] = u2],
                  active |-> u2.InactiveDays <= ValidatorInactiveThreshold]

(* The filter loop of distributeToActiveValidators *)
FilterStep(r, v, acc) ==
    [up |-> r.up, active |-> IF r.active THEN Append(acc, v) ELSE acc]

RECURSIVE FilterActive(_, _, _, _), FilterNext(_, _, _)
FilterActive(vs, up, acc, ctx) ==
    IF vs = <<>>
    THEN [up |-> up, active |-> acc]
    ELSE IF ctx.fault = BadAddress[Head(vs)]
    THEN FilterActive(Tail(vs), up, acc, ctx)
    ELSE FilterNext(vs, FilterStep(isValidatorActive(up, Head(vs), ctx), Head(vs), acc), ctx)

FilterNext(vs, f, ctx) == FilterActive(Tail(vs), f.up, f.active, ctx)

(* The payment loop of distributeToActiveValidators: a failed send is *)
(* logged and the loop goes on with the next validator                *)
PaidOne(v, s, rest, ctx) ==
    [st   |-> rest.st,
     paid |-> IF s.ok THEN rest.paid \cup {v} ELSE rest.paid,
     hit  |-> rest.hit \/ (~s.ok /\ ctx.fault = v)]

RECURSIVE PayValidators(_, _, _, _), PayRest(_, _, _, _)
PayValidators(vs, st, per, ctx) ==
    IF vs = <<>>
    THEN [st |-> st, paid |-> {}, hit |-> FALSE]
    ELSE PayRest(vs, SendToValidator(st, ctx, Head(vs), per), per, ctx)

(* The payment loop stopping at the first failed send *)
PayRest_StopsAtFailure(vs, s, per, ctx) ==
    IF s.ok
    THEN PaidOne(Head(vs), s, PayValidators(Tail(vs), s.st, per, ctx), ctx)
    ELSE [st |-> s.st, paid |-> {}, hit |-> ctx.fault = Head(vs)]

PayRest(vs, s, per, ctx) ==
    PaidOne(Head(vs), s, PayValidators(Tail(vs), s.st, per, ctx), ctx)

(* Whether the fault of this block is a bonded validator's bad address *)
BadAddressHit(ctx) == \E v \in ctx.bonded : ctx.fault = BadAddress[v]

(* The outcome of the payment loop, with the active validators found *)
PaidActive(p, active, ctx) ==
    [st |-> p.st, paid |-> p.paid, hit |-> p.hit \/ BadAddressHit(ctx),
     eligible |-> Len(active), active |-> {active[k] : k \in 1..Len(active)}]

(* PayActive with the per-validator amount rounded up *)
PayActive_RoundsUp(st, f, amount, ctx) ==
    IF Len(f.active) = 0
    THEN PaidActive([st |-> [st EXCEPT !.uptime = f.up], paid |-> {},
                     hit |-> FALSE], f.active, ctx)
    ELSE PaidActive(PayValidators(f.active, [st EXCEPT !.uptime = f.up],
                                  ((amount - 1) \div Len(f.active)) + 1, ctx),
                    f.active, ctx)

PayActive(st, f, amount, ctx) ==
    IF Len(f.active) = 0 \/ amount \div Len(f.active) = 0
    THEN PaidActive([st |-> [st EXCEPT !.uptime = f.up], paid |-> {},
                     hit |-> FALSE], f.active, ctx)
    ELSE PaidActive(PayValidators(f.active, [st EXCEPT !.uptime = f.up],
                                  amount \div Len(f.active), ctx),
                    f.active, ctx)

BondedValidators(ctx) == SelectSeq(ValOrder, LAMBDA v : v \in ctx.bonded)

(* distributeToActiveValidators that removes a forfeited amount from the *)
(* module account                                                       *)
distributeToActiveValidators_ForfeitLeaves(st, ctx, amount) ==
    IF Len(BondedValidators(ctx)) = 0
    THEN [st |-> [st EXCEPT !.moduleBal = @ - amount], paid |-> {},
          hit |-> FALSE, eligible |-> 0, active |-> {}]
    ELSE PayActive(st, FilterActive(BondedValidators(ctx), st.uptime, <<>>, ctx),
                   amount, ctx)

distributeToActiveValidators(st, ctx, amount) ==
    IF Len(BondedValidators(ctx)) = 0
    THEN [st |-> st, paid |-> {}, hit |-> FALSE, eligible |-> 0, active |-> {}]
    ELSE PayActive(st, FilterActive(BondedValidators(ctx), st.uptime, <<>>, ctx),
                   amount, ctx)

SentToDelegators(s, ctx, amount) ==
    [ok |-> s.ok, st |-> s.st, sent |-> IF s.ok THEN amount ELSE 0,
     hit |-> ~s.ok /\ ctx.fault = "sendDelegators"]

distributeToDelegators(st, ctx, amount) ==
    IF ctx.fault = "noFeeCollector"
    THEN [ok |-> FALSE, st |-> st, sent |-> 0, hit |-> TRUE]
    ELSE SentToDelegators(SendToFeeCollector(st, ctx, amount), ctx, amount)

(* distributeToDEX with the last instant of the window included *)
distributeToDEX_Inclusive(ctx, i) ==
    ctx.now - i.DistributionStart <= DEXDistributionPeriod

(* distributeToDEX changes no state: TRUE when the allocation branch runs *)
distributeToDEX(ctx, i) ==
    ctx.now - i.DistributionStart < DEXDistributionPeriod

(* The three amounts distributeRewards computes from totalAmount *)
validatorAmount(totalAmount) == MulTruncate(totalAmount, 70)
delegatorAmount(totalAmount) == MulTruncate(totalAmount, 20)
dexAmount(totalAmount) == MulTruncate(totalAmount, 10)

RewardsResult(v, d, ctx, i, totalAmount) ==
    [ok |-> d.ok, st |-> d.st, paid |-> v.paid, sentDel |-> d.sent,
     hit |-> v.hit \/ d.hit, dex |-> d.ok /\ distributeToDEX(ctx, i),
     eligible |-> v.eligible, active |-> v.active,
     validatorAmount |-> validatorAmount(totalAmount),
     delegatorAmount |-> delegatorAmount(totalAmount),
     dexAmount |-> dexAmount(totalAmount)]

RewardsAfterValidators(v, ctx, totalAmount, i) ==
    RewardsResult(v, distributeToDelegators(v.st, ctx, delegatorAmount(totalAmount)),
                  ctx, i, totalAmount)

distributeRewards(st, ctx, totalAmount, i) ==
    RewardsAfterValidators(
        distributeToActiveValidators(st, ctx, validatorAmount(totalAmount)),
        ctx, totalAmount, i)

(* What a call of DistributeHalvingRewards that changes nothing reports *)
NoDistribution(st) ==
    [st |-> st, err |-> FALSE, attempted |-> FALSE, committed |-> FALSE,
     amount |-> 0, burned |-> 0, minted |-> 0, paid |-> {}, sentDel |-> 0,
     hit |-> FALSE, dex |-> FALSE, eligible |-> 0, active |-> {},
     validatorAmount |-> 0, delegatorAmount |-> 0, dexAmount |-> 0,
     panic |-> FALSE]

(* The monthly amount DistributeHalvingRewards settles on *)
MonthlyAmount(i) ==
    IF i.HalvingFund < calculateMonthlyDistribution(i)
    THEN i.HalvingFund
    ELSE calculateMonthlyDistribution(i)

(* AfterRewards that clears the distribution records when it commits *)
AfterRewards_DropsRecords(st, ctx, amt, r) ==
    IF ~r.ok
    THEN [NoDistribution(r.st) EXCEPT
             !.attempted = TRUE, !.amount = amt, !.err = TRUE,
             !.burned = amt, !.minted = amt, !.paid = r.paid, !.hit = r.hit]
    ELSE [NoDistribution(r.st) EXCEPT
             !.st.info.DistributedAmount = @ + amt,
             !.st.info.HalvingFund = @ - amt,
             !.st.info.LastMonthlyDistrib = ctx.now,
             !.st.records = {},
             !.attempted = TRUE, !.amount = amt, !.committed = TRUE,
             !.burned = amt, !.minted = amt, !.paid = r.paid,
             !.sentDel = r.sentDel, !.hit = r.hit, !.dex = r.dex]

(* AfterRewards that leaves HalvingFund as it is *)
AfterRewards_KeepsFund(st, ctx, amt, r) ==
    IF ~r.ok
    THEN [NoDistribution(r.st) EXCEPT
             !.attempted = TRUE, !.amount = amt, !.err = TRUE,
             !.burned = amt, !.minted = amt, !.paid = r.paid, !.hit = r.hit,
             !.eligible = r.eligible, !.active = r.active,
             !.validatorAmount = r.validatorAmount,
             !.delegatorAmount = r.delegatorAmount, !.dexAmount = r.dexAmount]
    ELSE [NoDistribution(r.st) EXCEPT
             !.st.info.DistributedAmount = @ + amt,
             !.st.info.LastMonthlyDistrib = ctx.now,
             !.attempted = TRUE, !.amount = amt, !.committed = TRUE,
             !.burned = amt, !.minted = amt, !.paid = r.paid,
             !.sentDel = r.sentDel, !.hit = r.hit, !.dex = r.dex,
             !.eligible = r.eligible, !.active = r.active,
             !.validatorAmount = r.validatorAmount,
             !.delegatorAmount = r.delegatorAmount, !.dexAmount = r.dexAmount]

(* AfterRewards with the amount subtracted from DistributedAmount instead *)
(* of HalvingFund                                                         *)
AfterRewards_SubtractsFromDistributed(st, ctx, amt, r) ==
    IF ~r.ok
    THEN [NoDistribution(r.st) EXCEPT
             !.attempted = TRUE, !.amount = amt, !.err = TRUE,
             !.burned = amt, !.minted = amt, !.paid = r.paid, !.hit = r.hit,
             !.eligible = r.eligible, !.active = r.active,
             !.validatorAmount = r.validatorAmount,
             !.delegatorAmount = r.delegatorAmount, !.dexAmount = r.dexAmount]
    ELSE [NoDistribution(r.st) EXCEPT
             !.st.info.DistributedAmount = @ - amt,
             !.st.info.HalvingFund = @ + amt,
             !.st.info.LastMonthlyDistrib = ctx.now,
             !.attempted = TRUE, !.amount = amt, !.committed = TRUE,
             !.burned = amt, !.minted = amt, !.paid = r.paid,
             !.sentDel = r.sentDel, !.hit = r.hit, !.dex = r.dex,
             !.eligible = r.eligible, !.active = r.active,
             !.validatorAmount = r.validatorAmount,
             !.delegatorAmount = r.delegatorAmount, !.dexAmount = r.dexAmount,
             !.panic = st.info.DistributedAmount < amt]

(* DistributeHalvingRewards from the call of distributeRewards on.  Coin.Sub *)
(* panics when the result would be negative: panic reports that the update  *)
(* of HalvingFund does.                                                     *)
AfterRewards(st, ctx, amt, r) ==
    IF ~r.ok
    THEN [NoDistribution(r.st) EXCEPT
             !.attempted = TRUE, !.amount = amt, !.err = TRUE,
             !.burned = amt, !.minted = amt, !.paid = r.paid, !.hit = r.hit,
             !.eligible = r.eligible, !.active = r.active,
             !.validatorAmount = r.validatorAmount,
             !.delegatorAmount = r.delegatorAmount, !.dexAmount = r.dexAmount]
    ELSE [NoDistribution(r.st) EXCEPT
             !.st.info.DistributedAmount = @ + amt,
             !.st.info.HalvingFund = @ - amt,
             !.st.info.LastMonthlyDistrib = ctx.now,
             !.attempted = TRUE, !.amount = amt, !.committed = TRUE,
             !.burned = amt, !.minted = amt, !.paid = r.paid,
             !.sentDel = r.sentDel, !.hit = r.hit, !.dex = r.dex,
             !.eligible = r.eligible, !.active = r.active,
             !.validatorAmount = r.validatorAmount,
             !.delegatorAmount = r.delegatorAmount, !.dexAmount = r.dexAmount,
             !.panic = st.info.HalvingFund < amt]

(* DistributeHalvingRewards from the call of MintCoins on *)
AfterMint(st, ctx, amt, m) ==
    IF ~m.ok
    THEN [NoDistribution(m.st) EXCEPT
             !.attempted = TRUE, !.amount = amt, !.err = TRUE,
             !.burned = amt, !.hit = TRUE]
    ELSE AfterRewards(st, ctx, amt, distributeRewards(m.st, ctx, amt, st.info))

(* AfterBurn with the mint drawn from the fund instead of the burned amount *)
AfterBurn_MintsFund(st, ctx, amt, b) ==
    IF ~b.ok
    THEN [NoDistribution(st) EXCEPT
             !.attempted = TRUE, !.amount = amt, !.err = TRUE,
             !.hit = (ctx.fault = "burn")]
    ELSE AfterMint(st, ctx, amt, MintCoins(b.st, ctx, st.info.HalvingFund))

(* DistributeHalvingRewards from the call of BurnCoins on *)
AfterBurn(st, ctx, amt, b) ==
    IF ~b.ok
    THEN [NoDistribution(st) EXCEPT
             !.attempted = TRUE, !.amount = amt, !.err = TRUE,
             !.hit = (ctx.fault = "burn")]
    ELSE AfterMint(st, ctx, amt, MintCoins(b.st, ctx, amt))

(* DistributeHalvingRewards without the check of the distribution flag *)
DistributeHalvingRewards_IgnoresPause(st, ctx) ==
    IF ~st.found THEN NoDistribution(st)
    ELSE IF /\ st.info.LastMonthlyDistrib # 0
            /\ ctx.now - st.info.LastMonthlyDistrib < MonthlyDistributionTrigger
    THEN NoDistribution(st)
    ELSE IF calculateMonthlyDistribution(st.info) = 0 THEN NoDistribution(st)
    ELSE AfterBurn(st, ctx, MonthlyAmount(st.info),
                   BurnCoins(st, ctx, MonthlyAmount(st.info)))

DistributeHalvingRewards(st, ctx) ==
    IF ~st.found \/ ~st.info.DistributionActive THEN NoDistribution(st)
    ELSE IF ~ShouldDistribute(st, ctx) THEN NoDistribution(st)
    ELSE IF calculateMonthlyDistribution(st.info) = 0 THEN NoDistribution(st)
    ELSE AfterBurn(st, ctx, MonthlyAmount(st.info),
                   BurnCoins(st, ctx, MonthlyAmount(st.info)))

----------------------------------------------------------------------------
(* abci.go *)

shouldDistributeMonthly(ctx) == DayOfMonth(ctx.now) = 1

(* The distribution step with the uptime of every validator evaluated at *)
(* every block                                                           *)
Distribute_ChecksUptime(s2, ctx) ==
    IF shouldDistributeMonthly(ctx)
    THEN DistributeHalvingRewards(
             [s2 EXCEPT !.uptime = FilterActive(ValOrder, @, <<>>, ctx).up], ctx)
    ELSE NoDistribution(
             [s2 EXCEPT !.uptime = FilterActive(ValOrder, @, <<>>, ctx).up])

Distribute(s2, ctx) ==
    IF shouldDistributeMonthly(ctx)
    THEN DistributeHalvingRewards(s2, ctx)
    ELSE NoDistribution(s2)

AfterStatus(s1, s2, ctx) == [s1 |-> s1, s2 |-> s2, d |-> Distribute(s2, ctx)]

(* BeginBlocker with the monthly distribution run before the status check *)
AfterAdvance_DistributesFirst(s1, ctx) ==
    [s1 |-> s1, s2 |-> s1,
     d  |-> [Distribute(s1, ctx) EXCEPT
                !.st = CheckAndUpdateDistributionStatus(@, ctx)]]

AfterAdvance(s1, ctx) == AfterStatus(s1, CheckAndUpdateDistributionStatus(s1, ctx), ctx)

BeginBlocker(st, ctx) == AfterAdvance(CheckAndAdvanceHalvingCycle(st, ctx), ctx)

----------------------------------------------------------------------------
(* bot/rebalancer.go.  A Rebalancer value holds the fields the state      *)
(* handling reads; the price history and the statistics (lastRebalance    *)
(* and the counters of performRebalance among them) are left out.  Every  *)
(* operator takes the time t of the call (time.Now()).                    *)

PriceInputs == {499, 500}

NewRebalancer ==
    [now |-> 0, state |-> "active", stateChangeTime |-> 0,
     currentPrice |-> 300, nextRebalanceTime |-> 1, monitorOnlyStart |-> 0]

(* A state transition returns the rebalancer and the error, if any, of *)
(* sendStateChangeAlert                                                *)
enterMonitorOnlyMode(r, t, alertFails) ==
    [r |-> [r EXCEPT !.state = "monitor_only", !.stateChangeTime = t,
                     !.monitorOnlyStart = t],
     err |-> alertFails, rebalanced |-> FALSE]

exitMonitorOnlyMode(r, t, alertFails) ==
    [r |-> [r EXCEPT !.state = "active", !.stateChangeTime = t],
     err |-> alertFails, rebalanced |-> FALSE]

enterEmergencyStop(r, t, alertFails) ==
    [r |-> [r EXCEPT !.state = "emergency_stop", !.stateChangeTime = t],
     err |-> alertFails, rebalanced |-> FALSE]

exitEmergencyStop(r, t, alertFails) ==
    [r |-> [r EXCEPT !.state = "active", !.stateChangeTime = t],
     err |-> alertFails, rebalanced |-> FALSE]

recoverFromError(r, t, alertFails) ==
    [r |-> [r EXCEPT !.state = "active", !.stateChangeTime = t],
     err |-> alertFails, rebalanced |-> FALSE]

handleError(r, t) == [r EXCEPT !.state = "error", !.stateChangeTime = t]

Unchanged(r) == [r |-> r, err |-> FALSE, rebalanced |-> FALSE]

(* updatePrice: the monitor-only check, then the emergency check on the *)
(* state the first one left; the errors of both transitions are dropped *)
updatePriceEmergency(r, t, newPrice, alertFails) ==
    IF newPrice >= EmergencyStopThreshold /\ r.state # "emergency_stop"
    THEN enterEmergencyStop(r, t, alertFails).r
    ELSE r

updatePriceThreshold(r, t, newPrice, alertFails) ==
    IF newPrice >= PriceThreshold /\ r.state = "active"
    THEN enterMonitorOnlyMode(r, t, alertFails).r
    ELSE r

updatePrice(r, t, newPrice, alertFails) ==
    updatePriceEmergency(
        updatePriceThreshold([r EXCEPT !.currentPrice = newPrice], t, newPrice,
                             alertFails),
        t, newPrice, alertFails)

performRebalance(r, t, execFails, alertFails) ==
    IF r.currentPrice >= PriceThreshold
    THEN enterMonitorOnlyMode(r, t, alertFails)
    ELSE IF execFails
    THEN [r |-> r, err |-> TRUE, rebalanced |-> FALSE]
    ELSE [r |-> r, err |-> FALSE, rebalanced |-> TRUE]

handleMonitorOnlyMode(r, t, alertFails) ==
    IF t - r.monitorOnlyStart >= MonitorOnlyDuration
    THEN IF r.currentPrice < PriceThreshold
         THEN exitMonitorOnlyMode(r, t, alertFails)
         ELSE Unchanged([r EXCEPT !.monitorOnlyStart = t])
    ELSE Unchanged(r)

handleEmergencyStop(r, t, alertFails) ==
    IF r.currentPrice < PriceThreshold
    THEN exitEmergencyStop(r, t, alertFails)
    ELSE Unchanged(r)

handleErrorState(r, t, alertFails) ==
    IF t - r.stateChangeTime >= 1
    THEN recoverFromError(r, t, alertFails)
    ELSE Unchanged(r)

(* processRebalanceCheck; early: the ticker fires a moment before the *)
(* instant stored in nextRebalanceTime                                *)
processRebalanceCheck(r, t, early, execFails, alertFails) ==
    IF t < r.nextRebalanceTime \/ (t = r.nextRebalanceTime /\ early)
    THEN Unchanged(r)
    ELSE IF r.state = "active"
    THEN performRebalance([r EXCEPT !.nextRebalanceTime = t + RebalanceInterval],
                          t, execFails, alertFails)
    ELSE IF r.state = "monitor_only"
    THEN handleMonitorOnlyMode([r EXCEPT !.nextRebalanceTime = t + RebalanceInterval],
                               t, alertFails)
    ELSE IF r.state = "emergency_stop"
    THEN handleEmergencyStop([r EXCEPT !.nextRebalanceTime = t + RebalanceInterval],
                             t, alertFails)
    ELSE handleErrorState([r EXCEPT !.nextRebalanceTime = t + RebalanceInterval],
                          t, alertFails)

(* The ticker branch of Start: an error of the check ends in handleError *)
RebalanceLoop(c, t) ==
    [r |-> IF c.err THEN handleError(c.r, t) ELSE c.r,
     err |-> c.err, rebalanced |-> c.rebalanced]

----------------------------------------------------------------------------
(* The state machine *)

NoEvent ==
    [op |-> "init", below |-> FALSE, initialized |-> FALSE, advanced |-> FALSE,
     paused |-> FALSE, due |-> FALSE, attempted |-> FALSE, committed |-> FALSE,
     err |-> FALSE, amount |-> 0, burned |-> 0, minted |-> 0, paid |-> {},
     sentDel |-> 0, infoChanged |-> FALSE, supplyBefore |-> 0,
     moduleBefore |-> 0, prevCommit |-> 0, belowEarlier |-> FALSE,
     fault |-> "none", foundBefore |-> FALSE, infoBefore |-> ZeroInfo,
     infoAdvanced |-> ZeroInfo, dex |-> FALSE, eligible |-> 0, active |-> {},
     valBefore |-> [v \in Vals |-> 0],
     uptimeBefore |-> [v \in Vals |-> NoUptime],
     validatorAmount |-> 0, delegatorAmount |-> 0, dexAmount |-> 0,
     panic |-> FALSE]

NoBotEvent ==
    [op |-> "init", rebalanced |-> FALSE, err |-> FALSE, ran |-> FALSE,
     stateBefore |-> "active", breach |-> -1]

NoIdle == [month |-> 0, days |-> 0, last |-> 0]

(* History: v as the tick at block time t sees it.  days counts the ticks *)
(* of the 30-day window of t, at least one day apart, at which v was not  *)
(* bonded.                                                                *)
Observe(o, v, t) ==
    LET base == IF o.month = t \div 30 THEN o
                ELSE [month |-> t \div 30, days |-> 0, last |-> 0]
    IN  IF v \notin bonded /\ (base.days = 0 \/ t - base.last >= 1)
        THEN [base EXCEPT !.days = IF @ < 12 THEN @ + 1 ELSE @, !.last = t]
        ELSE base

NoAttempt ==
    [open |-> FALSE, start |-> 0, burns |-> 0, paid |-> [v \in Vals |-> 0],
     lastCommit |-> 0, belowSeen |-> FALSE, count |-> 0]

(* InitGenesis stores genState.HalvingInfo, whose only non-zero field in a *)
(* generated genesis is CycleStartTime, and genState.DistributionRecords;  *)
(* a store that was never initialised holds no HalvingInfo and no record.  *)
Init ==
    /\ now = GenesisDay
    /\ found \in BOOLEAN
    /\ info = IF found THEN [ZeroInfo EXCEPT !.CycleStartTime = GenesisDay]
                       ELSE ZeroInfo
    /\ supply \in InitialSupplies
    /\ moduleBal = supply \div 4
    /\ valBal = [v \in Vals |-> 0]
    /\ feeBal = 0
    /\ uptime = [v \in Vals |-> NoUptime]
    /\ \E list \in (IF found THEN GenesisRecordLists ELSE {<<>>}) :
           records = InitGenesisRecords(list, {})
    /\ bonded \in InitialBonded
    /\ ev = NoEvent
    /\ attempt = NoAttempt
    /\ idle = [v \in Vals |-> NoIdle]
    /\ params = DefaultParams
    /\ budget = 0
    /\ bot = NewRebalancer
    /\ botEv = NoBotEvent

Min(a, b) == IF a < b THEN a ELSE b

(* History: the burns and payments made for the distribution that is    *)
(* still owed, the time of the last committed distribution, and whether *)
(* some tick has seen the supply below the threshold                    *)
AttemptBase(t) ==
    IF attempt.open THEN attempt
    ELSE [attempt EXCEPT !.open = TRUE, !.start = t, !.burns = 0,
                         !.paid = [v \in Vals |-> 0]]

Attempted(base, d, t) ==
    [open       |-> ~d.committed,
     start      |-> base.start,
     burns      |-> Min(2, base.burns + (IF d.burned > 0 THEN 1 ELSE 0)),
     paid       |-> [v \in Vals |->
                       Min(2, base.paid[v] + (IF v \in d.paid THEN 1 ELSE 0))],
     lastCommit |-> IF d.committed THEN t ELSE base.lastCommit,
     belowSeen  |-> base.belowSeen,
     count      |-> base.count]

NextAttempt(d, t) ==
    [(IF d.attempted THEN Attempted(AttemptBase(t), d, t) ELSE attempt)
        EXCEPT !.belowSeen = @ \/ supply < MinimumSupplyThreshold]

(* History: count is the number of distributions committed in the cycle *)
(* that is current after the tick                                        *)
Counted(a, r, d) ==
    [a EXCEPT !.count = (IF ~found \/ r.s1.info.CurrentCycle # info.CurrentCycle
                         THEN 0 ELSE @)
                        + (IF d.committed THEN 1 ELSE 0)]

(* One block: BeginBlocker at block time t, with ledger fault f injected *)
Tick(t, f) ==
    /\ t >= now
    /\ t <= GenesisDay + Horizon
    /\ f = "none" \/ budget < MaxFaults
    /\ \E r \in {BeginBlocker(Store, Ctx(t, f))} : \E d \in {r.d} :
           /\ f = "none" \/ d.hit
           /\ now' = t
           /\ found' = d.st.found
           /\ info' = d.st.info
           /\ supply' = d.st.supply
           /\ moduleBal' = d.st.moduleBal
           /\ valBal' = d.st.valBal
           /\ feeBal' = d.st.feeBal
           /\ uptime' = d.st.uptime
           /\ records' = d.st.records
           /\ ev' = [op           |-> "tick",
                     below        |-> supply < MinimumSupplyThreshold,
                     initialized  |-> ~found,
                     advanced     |-> found /\ r.s1.info # info,
                     paused       |-> r.s2.info # r.s1.info,
                     due          |-> /\ r.s2.found
                                      /\ r.s2.info.DistributionActive
                                      /\ \/ r.s2.info.LastMonthlyDistrib = 0
                                         \/ t - r.s2.info.LastMonthlyDistrib >= 30,
                     attempted    |-> d.attempted,
                     committed    |-> d.committed,
                     err          |-> d.err,
                     amount       |-> d.amount,
                     burned       |-> d.burned,
                     minted       |-> d.minted,
                     paid         |-> d.paid,
                     sentDel      |-> d.sentDel,
                     infoChanged  |-> d.st.info # info \/ d.st.found # found,
                     supplyBefore |-> supply,
                     moduleBefore |-> moduleBal,
                     prevCommit   |-> attempt.lastCommit,
                     belowEarlier |-> attempt.belowSeen,
                     fault        |-> f,
                     foundBefore  |-> found,
                     infoBefore   |-> info,
                     infoAdvanced |-> r.s1.info,
                     dex          |-> d.dex,
                     eligible     |-> d.eligible,
                     active       |-> d.active,
                     valBefore    |-> valBal,
                     uptimeBefore |-> uptime,
                     validatorAmount |-> d.validatorAmount,
                     delegatorAmount |-> d.delegatorAmount,
                     dexAmount    |-> d.dexAmount,
                     panic        |-> d.panic]
           /\ attempt' = Counted(NextAttempt(d, t), r, d)
           /\ idle' = [v \in Vals |-> Observe(idle[v], v, t)]
           /\ budget' = budget + (IF f = "none" THEN 0 ELSE 1)
    /\ UNCHANGED <<bonded, params, bot, botEv>>

(* Another module of the chain mints or burns ugen: the supply the keeper *)
(* reads changes without any action of this module.                       *)
LedgerMutation(delta) ==
    /\ budget < MaxLedgerOps
    /\ supply + delta >= moduleBal + feeBal
    /\ supply' = supply + delta
    /\ budget' = budget + 1
    /\ ev' = [NoEvent EXCEPT !.op = "ledger", !.supplyBefore = supply,
                             !.moduleBefore = moduleBal,
                             !.foundBefore = found, !.infoBefore = info,
                             !.infoAdvanced = info, !.valBefore = valBal,
                             !.uptimeBefore = uptime]
    /\ UNCHANGED <<now, found, info, moduleBal, valBal, feeBal, uptime, records,
                   params, bonded, attempt, idle, bot, botEv>>

(* Block times offered to the next block: the same instant again, and the *)
(* next 1st or 15th of a month while a distribution is active, a year     *)
(* later while it is not.                                                  *)
TimeSteps ==
    {now} \cup (IF found /\ info.DistributionActive
                THEN {NextAnchor(now)}
                ELSE {now + YearStep})

Next ==
    \/ \E t \in TimeSteps, f \in Faults : Tick(t, f)
    \/ \E delta \in {LedgerDelta, 0 - LedgerDelta} : LedgerMutation(delta)

Spec == Init /\ [][Next]_vars

----------------------------------------------------------------------------
(* Daily blocks and a changing bonded set *)

(* The staking module bonds or unbonds v *)
StakingChange(v) ==
    /\ budget < MaxStakingOps
    /\ bonded' = IF v \in bonded THEN bonded \ {v} ELSE bonded \cup {v}
    /\ budget' = budget + 1
    /\ ev' = [NoEvent EXCEPT !.op = "staking", !.supplyBefore = supply,
                             !.moduleBefore = moduleBal,
                             !.foundBefore = found, !.infoBefore = info,
                             !.infoAdvanced = info, !.valBefore = valBal,
                             !.uptimeBefore = uptime]
    /\ UNCHANGED <<now, found, info, supply, moduleBal, valBal, feeBal, uptime,
                   records, params, attempt, idle, bot, botEv>>

(* A block one day after the last one while a distribution is active, a  *)
(* year after it while none is                                           *)
DailyTick ==
    \E t \in (IF found /\ info.DistributionActive
              THEN {now + 1} ELSE {now + YearStep}) :
        /\ t <= GenesisDay + UptimeHorizon
        /\ Tick(t, "none")

InitUptime == Init /\ found /\ supply = 1010 /\ bonded = Vals /\ records = {}

NextUptime ==
    \/ DailyTick
    \/ \E v \in Vals : StakingChange(v)

SpecUptime == InitUptime /\ [][NextUptime]_vars

----------------------------------------------------------------------------
(* distributeRewards applied to the inputs of its domain: every stored    *)
(* uptime record, every bonded set and both sides of the DEX window       *)

InactiveDaysInputs == {0, 10, 11, 12}
ElapsedInputs == {729, 730}

UptimeInputs(t) ==
    {NoUptime} \cup
    [found : {TRUE}, CurrentMonth : {(t \div 30) - 1, t \div 30},
     InactiveDays : InactiveDaysInputs, LastCheck : {t - 1}]

InitAllocator ==
    /\ now = GenesisDay + HalvingCycleDuration + 730
    /\ found = TRUE
    /\ \E e \in ElapsedInputs :
           info = [ZeroInfo EXCEPT !.CurrentCycle = 1,
                                   !.CycleStartTime = now - e,
                                   !.TotalSupply = 1010,
                                   !.HalvingFund = 151,
                                   !.DistributionActive = TRUE,
                                   !.DistributionStart = now - e]
    /\ supply = 1010
    /\ moduleBal = 252
    /\ valBal = [v \in Vals |-> 0]
    /\ feeBal = 0
    /\ uptime \in [Vals -> UptimeInputs(now)]
    /\ records = {}
    /\ params = DefaultParams
    /\ bonded \in SUBSET Vals
    /\ ev = NoEvent
    /\ attempt = NoAttempt
    /\ idle = [v \in Vals |-> NoIdle]
    /\ budget = 0
    /\ bot = NewRebalancer
    /\ botEv = NoBotEvent

(* One call of distributeRewards with the monthly amount of the fund *)
Allocate(f) ==
    /\ ev.op = "init"
    /\ \E r \in {distributeRewards(Store, Ctx(now, f), MonthlyAmount(info), info)} :
           /\ f = "none" \/ r.hit
           /\ moduleBal' = r.st.moduleBal
           /\ valBal' = r.st.valBal
           /\ feeBal' = r.st.feeBal
           /\ uptime' = r.st.uptime
           /\ ev' = [NoEvent EXCEPT
                        !.op = "allocate", !.fault = f, !.err = ~r.ok,
                        !.amount = MonthlyAmount(info),
                        !.paid = r.paid, !.sentDel = r.sentDel, !.dex = r.dex,
                        !.eligible = r.eligible, !.active = r.active,
                        !.validatorAmount = r.validatorAmount,
                        !.delegatorAmount = r.delegatorAmount,
                        !.dexAmount = r.dexAmount,
                        !.supplyBefore = supply, !.moduleBefore = moduleBal,
                        !.foundBefore = found, !.infoBefore = info,
                        !.infoAdvanced = info, !.valBefore = valBal,
                        !.uptimeBefore = uptime]
    /\ UNCHANGED <<now, found, info, supply, records, params, bonded, attempt,
                   idle, budget, bot, botEv>>

NextAllocator == \E f \in Faults : Allocate(f)

SpecAllocator == InitAllocator /\ [][NextAllocator]_vars

----------------------------------------------------------------------------
(* The parameters: the store is written by InitGenesis and, key by key,  *)
(* through the pairs that ParamSetPairs registers.  Shares in percent.    *)

ShareInputs == {-10, 0, 10, 20, 70, 100, 110}
DurationInputs == {0, 365, 1825}

ParamInputs ==
    [HalvingCycleDuration : DurationInputs, ValidatorShare : ShareInputs,
     DelegatorShare : ShareInputs, DexShare : ShareInputs]

validateHalvingCycleDuration(v) == ~(v <= 0)

validateValidatorShare(v) == ~(v < 0) /\ ~(v > 100)

validateDelegatorShare(v) == ~(v < 0) /\ ~(v > 100)

validateDexShare(v) == ~(v < 0) /\ ~(v > 100)

(* Params.Validate: TRUE when it returns nil *)
Validate(p) ==
    /\ validateHalvingCycleDuration(p.HalvingCycleDuration)
    /\ validateValidatorShare(p.ValidatorShare)
    /\ validateDelegatorShare(p.DelegatorShare)
    /\ validateDexShare(p.DexShare)
    /\ p.ValidatorShare + p.DelegatorShare + p.DexShare = 100

(* The validator function registered with each key *)
ParamSetPairs ==
    [HalvingCycleDuration |-> {v \in DurationInputs : validateHalvingCycleDuration(v)},
     ValidatorShare       |-> {v \in ShareInputs : validateValidatorShare(v)},
     DelegatorShare       |-> {v \in ShareInputs : validateDelegatorShare(v)},
     DexShare             |-> {v \in ShareInputs : validateDexShare(v)}]

(* SetParams: SetParamSet runs the registered validator of every pair and *)
(* panics when one of them fails; TRUE when it stores p                   *)
SetParams(p) == \A key \in DOMAIN ParamSetPairs : p[key] \in ParamSetPairs[key]

(* InitGenesis of the chain's genesis state on the empty store *)
ImportGenesis(p, list) ==
    /\ ev.op = "init"
    /\ SetParams(p)
    /\ \E s \in {InitGenesis([Params |-> p,
                               HalvingInfo |-> [ZeroInfo EXCEPT
                                                  !.CycleStartTime = GenesisDay],
                               DistributionRecords |-> list,
                               ValidatorUptimes |-> <<>>])} :
           /\ params' = s.params
           /\ found' = s.found
           /\ info' = s.info
           /\ records' = s.records
           /\ uptime' = s.uptime
    /\ ev' = [NoEvent EXCEPT !.op = "genesis", !.supplyBefore = supply,
                             !.moduleBefore = moduleBal]
    /\ UNCHANGED <<now, supply, moduleBal, valBal, feeBal, bonded, attempt,
                   idle, budget, bot, botEv>>

(* A parameter change: the new value of one key is checked by the        *)
(* validator registered with that key and stored                         *)
ParamChange(key, value) ==
    /\ ev.op # "init"
    /\ value \in ParamSetPairs[key]
    /\ params' = [params EXCEPT ![key] = value]
    /\ ev' = [NoEvent EXCEPT !.op = "params", !.foundBefore = found,
                             !.infoBefore = info, !.infoAdvanced = info]
    /\ UNCHANGED <<now, found, info, supply, moduleBal, valBal, feeBal, uptime,
                   records, bonded, attempt, idle, budget, bot, botEv>>

InitParams ==
    Init /\ ~found /\ supply = 1010 /\ bonded = Vals

NextParams ==
    \/ \E p \in ParamInputs, list \in GenesisRecordLists : ImportGenesis(p, list)
    \/ \E key \in DOMAIN ParamSetPairs :
           \E value \in ShareInputs \cup DurationInputs : ParamChange(key, value)

SpecParams == InitParams /\ [][NextParams]_vars

(* types.DefaultGenesisState *)
DefaultGenesisState ==
    [Params              |-> DefaultParams,
     HalvingInfo         |-> ZeroInfo,
     DistributionRecords |-> <<>>,
     ValidatorUptimes    |-> <<>>]

(* GenesisState.Validate: TRUE when it returns nil *)
GenesisStateValidate(gs) ==
    /\ Validate(gs.Params)
    /\ ~(gs.HalvingInfo.CurrentCycle = 0 \/ gs.HalvingInfo.CurrentCycle > 5)
    /\ ~(gs.HalvingInfo.CycleStartTime <= 0)

----------------------------------------------------------------------------
(* The chain running on: the host calls BeginBlock for every block and  *)
(* the block time keeps advancing; no ledger call fails.  In SpecLive no  *)
(* other module changes the supply, in SpecLiveSupply one may.            *)

AdvanceTick == \E t \in TimeSteps \ {now} : Tick(t, "none")

SameTimeTick == Tick(now, "none")

InitLive == Init /\ supply = 1010 /\ bonded = Vals

NextLive == AdvanceTick \/ SameTimeTick

(* The steps of NextLive that change now are the steps of AdvanceTick, *)
(* and AdvanceTick is enabled exactly when TimeAdvances is             *)
TimeAdvances ==
    \E t \in TimeSteps \ {now} : t <= GenesisDay + Horizon /\ now' = t

SpecLive == InitLive /\ [][NextLive]_vars /\ WF_now(TimeAdvances)

NextLiveSupply ==
    \/ AdvanceTick
    \/ SameTimeTick
    \/ \E delta \in {LedgerDelta, 0 - LedgerDelta} : LedgerMutation(delta)

SpecLiveSupply == InitLive /\ [][NextLiveSupply]_vars /\ WF_now(TimeAdvances)

----------------------------------------------------------------------------
(* The rebalancer running: the price monitor calls updatePrice, any number *)
(* of times within an hour, and the hourly ticker calls                   *)
(* processRebalanceCheck.                                                 *)

(* History: breach is the last time at which the rebalancer, in the *)
(* active state, observed a price of PriceThreshold or more          *)
Observed(newPrice) ==
    IF newPrice >= PriceThreshold /\ bot.state = "active"
    THEN bot.now
    ELSE botEv.breach

PriceTick(newPrice, alertFails) ==
    /\ bot' = updatePrice(bot, bot.now, newPrice, alertFails)
    /\ botEv' = [op |-> "price", rebalanced |-> FALSE, err |-> FALSE,
                 ran |-> botEv.ran, stateBefore |-> bot.state,
                 breach |-> Observed(newPrice)]
    /\ UNCHANGED <<now, found, info, supply, moduleBal, valBal, feeBal, uptime,
                   records, params, bonded, ev, attempt, idle, budget>>

HourTick(early, execFails, alertFails) ==
    /\ bot.now < BotHorizon
    /\ early => botEv.ran
    /\ \E c \in {RebalanceLoop(
                     processRebalanceCheck([bot EXCEPT !.now = @ + 1], bot.now + 1,
                                           early, execFails, alertFails),
                     bot.now + 1)} :
           /\ bot' = c.r
           /\ botEv' = [botEv EXCEPT
                           !.op = "check", !.rebalanced = c.rebalanced,
                           !.err = c.err, !.stateBefore = bot.state,
                           !.ran = (c.r.nextRebalanceTime = bot.now + 2)]
    /\ UNCHANGED <<now, found, info, supply, moduleBal, valBal, feeBal, uptime,
                   records, params, bonded, ev, attempt, idle, budget>>

InitRebalancer == Init /\ found /\ supply = 1010 /\ bonded = Vals /\ records = {}

NextRebalancer ==
    \/ \E newPrice \in PriceInputs, alertFails \in BOOLEAN :
           PriceTick(newPrice, alertFails)
    \/ \E early, execFails, alertFails \in BOOLEAN :
           HourTick(early, execFails, alertFails)

SpecRebalancer == InitRebalancer /\ [][NextRebalancer]_vars

----------------------------------------------------------------------------
(* Properties *)

IsTick == ev.op = "tick"

(* C1: when the burn of monthlyAmount succeeds and the mint that follows   *)
(* fails, the supply and the module-account balance after the tick equal   *)
(* those before it.                                                        *)
C1_BurnWithoutMintUndone ==
    (IsTick /\ ev.err /\ ev.burned > 0 /\ ev.minted = 0)
        => (supply = ev.supplyBefore /\ moduleBal = ev.moduleBefore)

(* C2: across a failed distribution attempt and its retries within the    *)
(* same 30 days, monthlyAmount is burned at most once and every validator *)
(* is paid at most once.                                                  *)
C2_FailedAttemptNotReapplied ==
    (IsTick /\ ev.attempted /\ now - attempt.start < MonthlyDistributionTrigger)
        => (attempt.burns <= 1 /\ \A v \in Vals : attempt.paid[v] <= 1)

(* C3: the total supply after a tick is never greater than the supply    *)
(* before that tick.                                                     *)
C3_SupplyNonIncreasing == IsTick => supply <= ev.supplyBefore

C3_Witness ==
    IsTick /\ ev.committed /\ ev.burned > 0 /\ ev.minted = ev.burned
           /\ supply = ev.supplyBefore

(* C4: in every reachable state DistributedAmount is at most HalvingFund. *)
C4_DistributedWithinFund ==
    found => info.DistributedAmount <= info.HalvingFund

(* C5: a successful monthly distribution comes at least 30 days of block  *)
(* time after the previous successful one, also when a cycle advance lies *)
(* between the two.                                                       *)
C5_ThirtyDaysApart ==
    (IsTick /\ ev.committed /\ ev.prevCommit # 0)
        => now - ev.prevCommit >= 30

(* A tick on the 1st of a month, less than 30 days after a distribution,  *)
(* with the distribution still active: nothing is distributed.            *)
C5_Witness ==
    /\ IsTick /\ found /\ info.DistributionActive
    /\ DayOfMonth(now) = 1
    /\ attempt.lastCommit # 0
    /\ now > attempt.lastCommit /\ now - attempt.lastCommit < 30
    /\ ~ev.attempted

(* C6: on every tick, after its cycle and phase transitions, a monthly    *)
(* distribution is triggered exactly when distributionActive holds and    *)
(* lastMonthlyDistributionTime is unset or at least 30 days old.          *)
C6_TriggerIffDue == IsTick => (ev.attempted <=> ev.due)

(* C7: every monthly distribution of a cycle uses monthlyAmount =         *)
(* floor(F / 24), F the fund computed from the supply snapshot when the   *)
(* cycle started.                                                         *)
C7_ConstantMonthlyAmount ==
    (IsTick /\ ev.committed)
        => ev.amount = MulTruncate(info.TotalSupply, 15) \div 24

(* C8: the first tick with no stored cycle state leaves the cycle active  *)
(* and distributing, with the supply snapshot, halvingFund = floor(supply *)
(* x 0.15) and cycleStartTime = distributionStartTime = now.              *)
C8_FirstTickStartsDistribution ==
    (IsTick /\ ev.initialized)
        => /\ found
           /\ info.TotalSupply = ev.supplyBefore
           /\ info.HalvingFund + info.DistributedAmount
                 = MulTruncate(ev.supplyBefore, 15)
           /\ info.CycleStartTime = now
           /\ info.DistributionStart = now
           /\ info.DistributionActive

(* C9: a tick that finds a stored cycle state and the supply below        *)
(* minimumSupplyThreshold, and every tick after it, issues no burn, mint  *)
(* or transfer and leaves the stored cycle state unchanged.               *)
C9_TerminatedTicksAreNoOps ==
    (IsTick /\ ~ev.initialized /\ (ev.below \/ ev.belowEarlier))
        => /\ ev.burned = 0 /\ ev.minted = 0
           /\ ev.paid = {} /\ ev.sentDel = 0
           /\ ~ev.infoChanged

(* C10: after a tick at which the supply was below the threshold, no      *)
(* later tick advances the cycle or performs a distribution.              *)
C10_TerminatedIsIrreversible ==
    (IsTick /\ ev.belowEarlier) => (~ev.advanced /\ ~ev.committed)

(* C11: a tick that finds a stored cycle state advances to the next cycle *)
(* exactly when now - cycleStartTime >= 1825 days and the supply is at    *)
(* least the minimum threshold; the advance stores the current supply as  *)
(* the snapshot, halvingFund = floor(supply x 0.15), the cycle number     *)
(* plus one, distributedInCycle = 0 and distributionActive = true.        *)
C11_AdvanceExactlyWhenElapsed ==
    (IsTick /\ ev.foundBefore)
        => /\ ev.advanced <=> /\ now - ev.infoBefore.CycleStartTime >= 1825
                              /\ ev.supplyBefore >= 1000
           /\ ev.advanced
                 => /\ ev.infoAdvanced.TotalSupply = ev.supplyBefore
                    /\ 100 * ev.infoAdvanced.HalvingFund <= 15 * ev.supplyBefore
                    /\ 15 * ev.supplyBefore < 100 * (ev.infoAdvanced.HalvingFund + 1)
                    /\ ev.infoAdvanced.CurrentCycle = ev.infoBefore.CurrentCycle + 1
                    /\ ev.infoAdvanced.DistributedAmount = 0
                    /\ ev.infoAdvanced.DistributionActive

(* An advance out of a cycle that has distributed part of its fund *)
C11_Witness ==
    IsTick /\ ev.foundBefore /\ ev.advanced /\ ev.infoBefore.DistributedAmount > 0

(* C12: a tick whose distribution is active and has started at least 730  *)
(* days before ends the distribution (distributionActive = false,         *)
(* pauseStartTime = now) and performs no distribution.                    *)
C12_PeriodEndPauses ==
    (IsTick /\ ev.infoAdvanced.DistributionActive
            /\ now - ev.infoAdvanced.DistributionStart >= 730)
        => /\ ~info.DistributionActive
           /\ info.PauseStart = now
           /\ ~ev.attempted
           /\ ev.burned = 0 /\ ev.minted = 0 /\ ev.paid = {} /\ ev.sentDel = 0

(* The distribution period ends on the 1st of a month, 30 days or more    *)
(* after the last distribution                                            *)
C12_Witness ==
    /\ IsTick /\ ev.paused /\ DayOfMonth(now) = 1
    /\ ev.infoBefore.LastMonthlyDistrib # 0
    /\ now - ev.infoBefore.LastMonthlyDistrib >= 30

(* C13: a tick that leaves the cycle in its pause issues no burn, mint or *)
(* transfer and leaves distributedInCycle as it was.                      *)
C13_NoDistributionInPause ==
    (IsTick /\ ~info.DistributionActive /\ info.PauseStart # 0)
        => /\ ev.burned = 0 /\ ev.minted = 0 /\ ev.paid = {} /\ ev.sentDel = 0
           /\ info.DistributedAmount = ev.infoBefore.DistributedAmount

(* A tick on the 1st of a month inside the pause, with fund left *)
C13_Witness ==
    /\ IsTick /\ ~ev.paused /\ ~info.DistributionActive /\ info.PauseStart # 0
    /\ DayOfMonth(now) = 1 /\ info.HalvingFund >= 24

(* C14: the cycle number never decreases across a tick, and a cycle       *)
(* advance increases it by exactly 1.                                     *)
C14_CycleNumberMonotone ==
    IsTick => /\ info.CurrentCycle >= ev.infoBefore.CurrentCycle
              /\ ev.advanced
                    => info.CurrentCycle = ev.infoBefore.CurrentCycle + 1

C14_Witness ==
    IsTick /\ ev.advanced /\ ev.infoBefore.CurrentCycle > 0

(* C15: distributionActive = true and a set pauseStartTime never hold in  *)
(* the same state.                                                        *)
C15_ActiveExcludesPause ==
    ~(info.DistributionActive /\ info.PauseStart # 0)

(* An advance out of a pause *)
C15_Witness ==
    IsTick /\ ev.advanced /\ ev.infoBefore.PauseStart # 0

(* C16: the validator, delegator and DEX amounts of a distribution are    *)
(* the floors of 70%, 20% and 10% of monthlyAmount, their sum and the     *)
(* transfers made are at most monthlyAmount, and the amount minted is at  *)
(* most the amount burned; 531,250 splits into 371,875 / 106,250 / 53,125.*)
C16_BucketsAreFloors ==
    (IsTick /\ ev.minted > 0)
        => /\ 10 * ev.validatorAmount <= 7 * ev.amount
           /\ 7 * ev.amount < 10 * (ev.validatorAmount + 1)
           /\ 5 * ev.delegatorAmount <= ev.amount
           /\ ev.amount < 5 * (ev.delegatorAmount + 1)
           /\ 10 * ev.dexAmount <= ev.amount
           /\ ev.amount < 10 * (ev.dexAmount + 1)
           /\ ev.validatorAmount + ev.delegatorAmount + ev.dexAmount <= ev.amount
           /\ ev.minted <= ev.burned
           /\ ev.sentDel \in {0, ev.delegatorAmount}
           /\ ev.moduleBefore - moduleBal <= ev.validatorAmount + ev.sentDel
           /\ ev.amount = 531250
                 => /\ ev.validatorAmount = 371875
                    /\ ev.delegatorAmount = 106250
                    /\ ev.dexAmount = 53125

(* A distribution whose amount is not a multiple of 10, paid to all *)
C16_Witness ==
    /\ IsTick /\ ev.committed /\ ev.paid = Vals
    /\ ev.amount % 10 # 0
    /\ ev.validatorAmount + ev.delegatorAmount + ev.dexAmount < ev.amount

(* C17: after a successful monthly distribution the total supply equals   *)
(* the supply before it minus monthlyAmount.                              *)
C17_DistributionLowersSupply ==
    (IsTick /\ ev.committed) => supply = ev.supplyBefore - ev.amount

(* C18: after a successful monthly distribution the stored records hold   *)
(* one with the block timestamp, monthlyAmount and the cycle number.      *)
C18_DistributionAppendsRecord ==
    (IsTick /\ ev.committed)
        => \E r \in records : /\ r.Timestamp = now
                              /\ r.Amount = ev.amount
                              /\ r.Cycle = info.CurrentCycle

C20_NoValidatorStillSucceeds ==
    (IsTick /\ ev.minted > 0 /\ ev.fault = "none" /\ ev.eligible = 0)
        => /\ ev.committed /\ ~ev.err
           /\ ev.paid = {}
           /\ ev.sentDel = ev.delegatorAmount
           /\ moduleBal = ev.moduleBefore - ev.delegatorAmount
           /\ ev.dex
           /\ info.DistributedAmount = ev.infoAdvanced.DistributedAmount + ev.amount
           /\ info.LastMonthlyDistrib = now

C20_Witness ==
    /\ IsTick /\ ev.committed /\ bonded = {} /\ ev.eligible = 0
    /\ ev.validatorAmount > 0 /\ ev.sentDel > 0

(* C21: when the transfer to one eligible validator fails, or the         *)
(* operator address of one bonded validator does not parse, that          *)
(* validator receives nothing, every other eligible validator receives    *)
(* its share and the distribution is committed.                           *)
C21_FailedValidatorIsSkipped ==
    (IsTick /\ ev.minted > 0
            /\ \E v \in Vals : ev.fault = v \/ ev.fault = BadAddress[v])
        => /\ ev.committed /\ ~ev.err
           /\ \A v \in Vals :
                 (ev.fault = v \/ ev.fault = BadAddress[v])
                     => valBal[v] = ev.valBefore[v]
           /\ \A w \in ev.active :
                 ev.fault # w
                     => /\ ev.eligible * (valBal[w] - ev.valBefore[w])
                              <= ev.validatorAmount
                        /\ ev.validatorAmount
                              < ev.eligible * (valBal[w] - ev.valBefore[w] + 1)

(* The send to the first validator fails and the second one is paid *)
C21_Witness ==
    /\ IsTick /\ ev.committed /\ ev.fault = "v1"
    /\ ev.active = Vals /\ ev.paid = {"v2"}
    /\ valBal["v2"] > ev.valBefore["v2"]

(* C22: with a non-empty eligible set every validator that is sent a      *)
(* share is sent floor(validatorBucket / number of eligible validators),  *)
(* without a failure every eligible validator is sent it, the total sent  *)
(* is at most validatorBucket and the rest stays in the module account.   *)
C22_EqualFloorShares ==
    (IsTick /\ ev.minted > 0 /\ ev.eligible > 0)
        => /\ \A v \in ev.paid :
                 /\ ev.eligible * (valBal[v] - ev.valBefore[v]) <= ev.validatorAmount
                 /\ ev.validatorAmount
                       < ev.eligible * (valBal[v] - ev.valBefore[v] + 1)
           /\ \A v \in Vals \ ev.paid : valBal[v] = ev.valBefore[v]
           /\ (ev.fault = "none" /\ ev.validatorAmount >= ev.eligible)
                 => ev.paid = ev.active
           /\ \A v \in Vals, w \in Vals :
                 (v # w /\ ev.paid = Vals)
                     => (valBal[v] - ev.valBefore[v]) + (valBal[w] - ev.valBefore[w])
                            <= ev.validatorAmount
           /\ ev.moduleBefore - moduleBal - ev.sentDel <= ev.validatorAmount
           /\ ev.paid = Vals
                 => ev.moduleBefore - moduleBal - ev.sentDel
                        = 2 * (valBal["v1"] - ev.valBefore["v1"])

(* Two validators share an odd amount: one unit stays behind *)
C22_Witness ==
    /\ IsTick /\ ev.committed /\ ev.fault = "none" /\ ev.paid = Vals
    /\ ev.validatorAmount % 2 = 1
    /\ valBal["v1"] - ev.valBefore["v1"] = (ev.validatorAmount - 1) \div 2

(* C23: at a distribution a bonded validator whose record of the current  *)
(* window counts 11 or more inactive days is not among the eligible and   *)
(* receives nothing, one whose record counts at most 10 is eligible, and  *)
(* the bonded set is what it was.                                         *)
C23_EligibleUpToTenDays ==
    (ev.op = "allocate" /\ ~(\E v \in Vals : ev.fault = BadAddress[v]))
        => \A v \in bonded :
             /\ ev.uptimeBefore[v].found
                  /\ ev.uptimeBefore[v].CurrentMonth = now \div 30
                  /\ ev.uptimeBefore[v].InactiveDays >= 11
                  => v \notin ev.active /\ valBal[v] = ev.valBefore[v]
             /\ ev.uptimeBefore[v].found
                  /\ ev.uptimeBefore[v].CurrentMonth = now \div 30
                  /\ ev.uptimeBefore[v].InactiveDays <= 10
                  => v \in ev.active

(* One validator with 11 inactive days excluded next to one with 10 paid *)
C23_Witness ==
    /\ ev.op = "allocate" /\ ev.fault = "none" /\ bonded = Vals
    /\ ev.uptimeBefore["v1"].found /\ ev.uptimeBefore["v1"].InactiveDays = 11
    /\ ev.uptimeBefore["v1"].CurrentMonth = now \div 30
    /\ ev.uptimeBefore["v2"].found /\ ev.uptimeBefore["v2"].InactiveDays = 10
    /\ ev.uptimeBefore["v2"].CurrentMonth = now \div 30
    /\ ev.active = {"v2"} /\ ev.paid = {"v2"}

(* C24: a validator that ticks at least a day apart have seen not bonded  *)
(* on 11 or more occasions within the 30-day window of a distribution,    *)
(* and that is bonded again when the distribution is made, has            *)
(* inactiveDaysThisWindow >= 11 and receives nothing in it.               *)
C24_InactivityCountedEveryTick ==
    (IsTick /\ ev.committed)
        => \A v \in bonded :
             (idle[v].month = now \div 30 /\ idle[v].days >= 11)
                 => /\ uptime[v].found /\ uptime[v].InactiveDays >= 11
                    /\ v \notin ev.paid

(* C25: after every tick the record of every validator belongs to the     *)
(* window of that tick: its counter was reset at the first tick of the    *)
(* window.                                                                *)
C25_ResetAtFirstTickOfWindow ==
    IsTick => \A v \in Vals :
                 uptime[v].found => uptime[v].CurrentMonth = now \div 30

(* C27: the DEX step of a distribution runs only while less than 730 days *)
(* have passed since the distribution started; in a distribution after    *)
(* that it does not run and only the validator and delegator amounts      *)
(* leave the module account.                                              *)
C27_DexOnlyInWindow ==
    (ev.op = "allocate" /\ ~ev.err)
        => /\ ev.dex <=> now - info.DistributionStart < 730
           /\ now - info.DistributionStart >= 730
                 => /\ ~ev.dex
                    /\ moduleBal >= ev.moduleBefore - ev.validatorAmount
                                                   - ev.delegatorAmount
                    /\ moduleBal + valBal["v1"] + valBal["v2"] + feeBal
                          = ev.moduleBefore + ev.valBefore["v1"]
                              + ev.valBefore["v2"]

(* A distribution exactly 730 days after the start: no DEX step *)
C27_Witness ==
    /\ ev.op = "allocate" /\ ~ev.err /\ ev.fault = "none"
    /\ now - info.DistributionStart = 730 /\ ~ev.dex /\ ev.sentDel > 0

(* C26: the amount burned and distributed by a distribution is at most    *)
(* what remains of the cycle's fund, HalvingFund - DistributedAmount as    *)
(* they stand when the distribution starts.                                *)
C26_AmountWithinRemainder ==
    (IsTick /\ ev.committed)
        => /\ ev.burned = ev.amount
           /\ ev.amount <= ev.infoAdvanced.HalvingFund
                              - ev.infoAdvanced.DistributedAmount

(* C28: exporting the genesis of a reachable state and importing it into *)
(* an empty store gives back the same HalvingInfo, present or absent as  *)
(* it was, and the same distribution records, and exporting again gives  *)
(* the same genesis state.                                               *)
C28_GenesisRoundTrip ==
    \E g \in {ExportGenesis(Store, params)} : \E s \in {InitGenesis(g)} :
        /\ s.found = found
        /\ s.info = info
        /\ s.records = records
        /\ ExportGenesis(s, s.params) = g

(* C29: BeginBlocker runs to completion without a panic, at every tick   *)
(* made and, from every reachable state, at every block time and with    *)
(* every outcome of the ledger calls that the next tick can meet.        *)
C29_TickNeverPanics ==
    /\ IsTick => ~ev.panic
    /\ \A t \in TimeSteps, f \in Faults :
           ~BeginBlocker(Store, Ctx(t, f)).d.panic

(* A tick that met a missing fee collector account after its burn, its *)
(* mint and its payments to the validators                             *)
C29_Witness ==
    /\ IsTick /\ ~ev.panic
    /\ ev.fault = "noFeeCollector" /\ ev.err /\ ev.burned > 0
    /\ ev.paid # {}

(* C30: the validator, delegator and DEX shares in the parameter store   *)
(* always add up to 1.0 (100 percent): every parameter set that has been *)
(* stored is one that Params.Validate accepts.                           *)
C30_SharesSumToOne ==
    ev.op \in {"genesis", "params"}
        => /\ params.ValidatorShare + params.DelegatorShare + params.DexShare = 100
           /\ Validate(params)

C33_AtMost24PerCycle ==
    attempt.count <= TotalMonths

(* The tick that ends the two-year window of a cycle in which 22 *)
(* distributions were committed                                  *)
C33_Witness ==
    /\ IsTick /\ ev.paused
    /\ attempt.count = 22

(* The fund computed when the cycle of i started: 15% of the supply      *)
(* snapshot for a cycle that advanceToNextCycle started, 0 for the first *)
(* cycle, which is stored with an empty fund                             *)
StartFund(i) ==
    IF i.DistributionStart = 0 THEN 0 ELSE MulTruncate(i.TotalSupply, 15)

(* C34: within a cycle HalvingFund + DistributedAmount stays equal to the *)
(* fund computed at the cycle's start: a committed distribution moves     *)
(* exactly its amount from HalvingFund to DistributedAmount, and a tick   *)
(* without one leaves both fields as the cycle step left them.            *)
C34_FundPlusDistributedConstant ==
    /\ found => info.HalvingFund + info.DistributedAmount = StartFund(info)
    /\ (IsTick /\ ev.committed)
          => /\ info.HalvingFund = ev.infoAdvanced.HalvingFund - ev.amount
             /\ info.DistributedAmount
                   = ev.infoAdvanced.DistributedAmount + ev.amount
    /\ (IsTick /\ ~ev.committed)
          => /\ info.HalvingFund = ev.infoAdvanced.HalvingFund
             /\ info.DistributedAmount = ev.infoAdvanced.DistributedAmount
    /\ (IsTick /\ ev.foundBefore /\ ~ev.advanced)
          => /\ ev.infoAdvanced.HalvingFund = ev.infoBefore.HalvingFund
             /\ ev.infoAdvanced.DistributedAmount
                   = ev.infoBefore.DistributedAmount

(* The third committed distribution, or a later one, of a cycle *)
C34_Witness ==
    /\ IsTick /\ ev.committed /\ ~ev.advanced
    /\ attempt.count >= 3
    /\ info.DistributedAmount > ev.amount
    /\ info.HalvingFund > 0

(* The cycle of the current state ends at least AdvanceSlack days before *)
(* the last block time of the model                                      *)
CycleEndsInTime ==
    info.CycleStartTime + HalvingCycleDuration + AdvanceSlack
        <= GenesisDay + Horizon

(* C35: with ticks going on, the block time advancing and the supply     *)
(* staying at or above MinimumSupplyThreshold, the cycle number of every *)
(* state is eventually exceeded.                                         *)
C35_NextCycleEventually ==
    \A n \in 0..MaxCycle :
        [](supply >= MinimumSupplyThreshold)
            => ((info.CurrentCycle = n /\ CycleEndsInTime)
                    ~> info.CurrentCycle > n)

(* The advance from the second cycle to the third *)
C35_Witness ==
    /\ IsTick /\ ev.advanced
    /\ ev.infoBefore.CurrentCycle = 2 /\ info.CurrentCycle = 3
    /\ supply >= MinimumSupplyThreshold

(* C36: the default genesis state passes GenesisState.Validate, and so   *)
(* does the genesis state exported from every state that ticks reach.    *)
C36_ExportedGenesisValidates ==
    /\ GenesisStateValidate(DefaultGenesisState)
    /\ IsTick => GenesisStateValidate(ExportGenesis(Store, params))

(* C37: whenever a tick reaches the monthly distribution, less than the  *)
(* distribution period (730 days) has passed since the distribution      *)
(* start, and a distribution that reaches distributeToDEX takes the      *)
(* allocation branch: the window-expired branch is never taken.          *)
C37_DistributionInsideWindow ==
    (IsTick /\ ev.attempted)
        => /\ now - ev.infoAdvanced.DistributionStart < DistributionPeriod
           /\ now - ev.infoAdvanced.DistributionStart < DEXDistributionPeriod
           /\ ev.committed => ev.dex

(* The last distribution of a window, more than 700 days after its start *)
C37_Witness ==
    /\ IsTick /\ ev.committed /\ ev.dex
    /\ now - ev.infoAdvanced.DistributionStart > 700
    /\ ev.infoAdvanced.DistributionStart > 0

(* C38: every stored ValidatorUptime record has InactiveDays = 0.        *)
C38_InactiveDaysStayZero ==
    \A v \in Vals : uptime[v].found => uptime[v].InactiveDays = 0

(* A validator with a stored record that was not bonded at eleven daily  *)
(* ticks of the current 30-day window                                    *)
C38_Witness ==
    /\ IsTick
    /\ \E v \in Vals : /\ uptime[v].found
                        /\ v \notin bonded
                        /\ idle[v].month = now \div 30
                        /\ idle[v].days >= 11

====
